---------------------------- MODULE Spec2Model ----------------------------
(***************************************************************************)
(* Model of the Entity registry of src/index.ts: a class that keeps two    *)
(* JavaScript Maps, entitySymbols (identifier -> symbol) and entityMap     *)
(* (symbol -> entity).  A JavaScript Map is an insertion-ordered list of   *)
(* key/value entries; it is modelled as a sequence of [key, value]         *)
(* records.  A symbol is modelled as a record [n, description]: n is its   *)
(* identity (the runtime never hands out the same symbol twice) and        *)
(* description is the string it was created with.                          *)
(***************************************************************************)
EXTENDS Integers, Sequences, FiniteSets, TLC

VARIABLES
  entityMap,      \* Map<symbol, EntityType>, in insertion order
  entitySymbols,  \* Map<Identifiers, symbol>, in insertion order
  minted,         \* every symbol the runtime created for this registry, oldest first
  call,           \* the public call that produced this state
  ret,            \* what that call returned
  snapshot,       \* the object the caller last got from getAllEntities()
  iterator        \* the object the caller last got from [Symbol.iterator]()

vars == <<entityMap, entitySymbols, minted, call, ret, snapshot, iterator>>

(* Bounds of the model. *)
MaxSymbols == 3   \* at most this many add calls (constructor included)
MaxInitial == 2   \* at most this many entries in the constructor's record
MaxSnapshotSymbols == 2  \* add calls stop at this many symbols while a snapshot is followed
MaxIteratorSymbols == 3  \* add calls stop at this many symbols while an iterator is followed

(* The inputs.  The JavaScript value undefined is encoded as 0, a number   *)
(* that is not among the stored payloads 10 and 20.                        *)
Undefined == 0
Identifiers == {"a", "b", "c"}
Entities == {Undefined, 10, 20}

----------------------------------------------------------------------------
(* JavaScript Map operations on a sequence of [key, value] entries. *)

MapKeys(m) == [i \in 1..Len(m) |-> m[i].key]

MapValues(m) == [i \in 1..Len(m) |-> m[i].value]

MapSize(m) == Len(m)

MapHas(m, k) == \E i \in 1..Len(m) : m[i].key = k

\* Map.prototype.get: the value stored under k, undefined when k is no key
MapGet(m, k) ==
  IF MapHas(m, k) THEN m[CHOOSE i \in 1..Len(m) : m[i].key = k].value
  ELSE Undefined

\* Map.prototype.set: an existing key keeps its position, a new key goes last
MapSet(m, k, v) ==
  IF MapHas(m, k)
  THEN [i \in 1..Len(m) |-> IF m[i].key = k THEN [key |-> k, value |-> v] ELSE m[i]]
  ELSE Append(m, [key |-> k, value |-> v])

\* Map.prototype.delete: the other entries keep their relative order
MapDelete(m, k) == SelectSeq(m, LAMBDA e : e.key # k)

\* Map.prototype.clear
MapClear(m) == << >>

----------------------------------------------------------------------------
(* Symbol(description): a symbol different from every symbol made before. *)
SymbolFor(made, description) == [n |-> 0, description |-> description]

Symbol(made, description) == [n |-> Len(made) + 1, description |-> description]

----------------------------------------------------------------------------
(* The read-only members, as functions of the two tables. *)

\* get that reads entityMap at the identifier's position in entitySymbols
getByPosition(identifier) ==
  IF MapHas(entitySymbols, identifier)
  THEN LET i == CHOOSE k \in 1..Len(entitySymbols) : entitySymbols[k].key = identifier
       IN  IF i <= Len(entityMap) THEN entityMap[i].value ELSE Undefined
  ELSE Undefined

\* symbol ? entityMap.get(symbol) : undefined -- a symbol is truthy, so the test
\* fails exactly when entitySymbols has no entry for the identifier
get(identifier) ==
  LET symbol == MapGet(entitySymbols, identifier)
  IN  IF MapHas(entitySymbols, identifier) THEN MapGet(entityMap, symbol) ELSE Undefined

has(identifier) == MapHas(entitySymbols, identifier)

getAllIdentifiers == MapKeys(entitySymbols)

getAllSymbols == MapKeys(entityMap)

size == MapSize(entityMap)

length == size

isEmpty == MapSize(entityMap) = 0

\* map(callback): the callback's results over entitySymbols.forEach.  A callback
\* is a function of <<entity, identifier>>; the entityMap it is also handed is
\* the variable entityMap itself.
map(callback) ==
  [i \in 1..Len(entitySymbols) |->
     callback[<<MapGet(entityMap, entitySymbols[i].value), entitySymbols[i].key>>]]

\* filter(callback): the entities the callback accepts, in entitySymbols.forEach order
RECURSIVE filterFrom(_, _)
filterFrom(callback, i) ==
  IF i > Len(entitySymbols) THEN << >>
  ELSE LET entity == MapGet(entityMap, entitySymbols[i].value)
       IN  (IF callback[<<entity, entitySymbols[i].key>>] THEN <<entity>> ELSE << >>)
             \o filterFrom(callback, i + 1)

filter(callback) == filterFrom(callback, 1)

\* find that returns at the first entity the callback accepts
RECURSIVE findFirstFrom(_, _)
findFirstFrom(callback, i) ==
  IF i > Len(entitySymbols) THEN Undefined
  ELSE LET entity == MapGet(entityMap, entitySymbols[i].value)
       IN  IF callback[<<entity, entitySymbols[i].key>>] THEN entity
           ELSE findFirstFrom(callback, i + 1)

findFirst(callback) == findFirstFrom(callback, 1)

\* find(callback): the forEach walk never stops; result is overwritten at each match
RECURSIVE findFrom(_, _, _)
findFrom(callback, i, result) ==
  IF i > Len(entitySymbols) THEN result
  ELSE LET entity == MapGet(entityMap, entitySymbols[i].value)
       IN  findFrom(callback, i + 1,
                    IF callback[<<entity, entitySymbols[i].key>>] THEN entity ELSE result)

find(callback) == findFrom(callback, 1, Undefined)

\* reduce(callback, initialValue): a callback is a function of <<accumulator, entity, identifier>>
RECURSIVE reduceFrom(_, _, _)
reduceFrom(callback, i, accumulator) ==
  IF i > Len(entitySymbols) THEN accumulator
  ELSE reduceFrom(callback, i + 1,
                  callback[<<accumulator, MapGet(entityMap, entitySymbols[i].value),
                             entitySymbols[i].key>>])

reduce(callback, initialValue) == reduceFrom(callback, 1, initialValue)

\* getAllEntities that reads the i-th entity of entityMap for the i-th identifier
RECURSIVE getAllEntitiesByPositionFrom(_, _)
getAllEntitiesByPositionFrom(i, entities) ==
  IF i > Len(entitySymbols) THEN entities
  ELSE getAllEntitiesByPositionFrom(i + 1,
         [k \in DOMAIN entities \cup {entitySymbols[i].key} |->
            IF k = entitySymbols[i].key
            THEN (IF i <= Len(entityMap) THEN entityMap[i].value ELSE Undefined)
            ELSE entities[k]])

getAllEntitiesByPosition == getAllEntitiesByPositionFrom(1, << >>)

\* getAllEntities(): a new object, entities[identifier] assigned per entitySymbols entry;
\* an object is a function from its keys to their values
RECURSIVE getAllEntitiesFrom(_, _)
getAllEntitiesFrom(i, entities) ==
  IF i > Len(entitySymbols) THEN entities
  ELSE getAllEntitiesFrom(i + 1,
         [k \in DOMAIN entities \cup {entitySymbols[i].key} |->
            IF k = entitySymbols[i].key THEN MapGet(entityMap, entitySymbols[i].value)
            ELSE entities[k]])

getAllEntities == getAllEntitiesFrom(1, << >>)

\* the next() of a Map's values() iterator that has already produced pos values
MapValuesNext(m, pos) ==
  IF pos < Len(m) THEN [done |-> FALSE, value |-> m[pos + 1].value]
  ELSE [done |-> TRUE, value |-> Undefined]

\* next() of the object [Symbol.iterator]() returns, after pos earlier calls
iteratorNext(pos) ==
  LET symbol == MapValuesNext(entitySymbols, pos)
      entity == MapValuesNext(entityMap, pos)
  IN  [done  |-> symbol.done \/ entity.done,
       value |-> <<entity.value, symbol.value, symbol.value, entityMap>>]

\* what a for...of loop over the registry receives: the values up to the first done
RECURSIVE iterateFrom(_)
iterateFrom(pos) ==
  LET item == iteratorNext(pos)
  IN  IF item.done THEN << >> ELSE <<item.value>> \o iterateFrom(pos + 1)

iterate == iterateFrom(0)

----------------------------------------------------------------------------
(* add, as a function of the registry's fields: used by the constructor   *)
(* and by the add action.                                                  *)
addSkipKnown(reg, identifier, entity) ==
  LET symbol == Symbol(reg.minted, identifier)
  IN  [entityMap     |-> MapSet(reg.entityMap, symbol, entity),
       entitySymbols |-> IF MapHas(reg.entitySymbols, identifier)
                         THEN reg.entitySymbols
                         ELSE MapSet(reg.entitySymbols, identifier, symbol),
       minted        |-> Append(reg.minted, symbol)]

\* add that deletes a known identifier before it sets it again
addReinsert(reg, identifier, entity) ==
  LET symbol == Symbol(reg.minted, identifier)
  IN  [entityMap     |-> MapSet(reg.entityMap, symbol, entity),
       entitySymbols |-> MapSet(MapDelete(reg.entitySymbols, identifier), identifier, symbol),
       minted        |-> Append(reg.minted, symbol)]

addTo(reg, identifier, entity) ==
  LET symbol == Symbol(reg.minted, identifier)
  IN  [entityMap     |-> MapSet(reg.entityMap, symbol, entity),
       entitySymbols |-> MapSet(reg.entitySymbols, identifier, symbol),
       minted        |-> Append(reg.minted, symbol)]

EmptyRegistry == [entityMap |-> << >>, entitySymbols |-> << >>, minted |-> << >>]

\* Object.entries(entities).forEach(add): a record has each key once
RECURSIVE constructorAdds(_, _)
constructorAdds(reg, entries) ==
  IF entries = << >> THEN reg
  ELSE constructorAdds(addTo(reg, Head(entries).identifier, Head(entries).entity),
                       Tail(entries))

InitialEntries ==
  { es \in UNION { [1..n -> [identifier : Identifiers, entity : Entities]] : n \in 0..MaxInitial } :
      \A i, j \in 1..Len(es) : i # j => es[i].identifier # es[j].identifier }

NoArg == "-"

\* getAllEntities() has not been called
NoSnapshot == [returned |-> FALSE, object |-> << >>]

\* [Symbol.iterator]() has not been called
NoIterator ==
  [obtained |-> FALSE,
   symbols  |-> [pos |-> 0, done |-> FALSE],
   entities |-> [pos |-> 0, done |-> FALSE],
   result   |-> [done |-> FALSE, value |-> << >>]]

Init ==
  \E entries \in InitialEntries :
    LET reg == constructorAdds(EmptyRegistry, entries)
    IN  /\ entityMap = reg.entityMap
        /\ entitySymbols = reg.entitySymbols
        /\ minted = reg.minted
        /\ call = [op |-> "constructor", identifier |-> NoArg, entity |-> Undefined]
        /\ ret = "this"
        /\ snapshot = NoSnapshot
        /\ iterator = NoIterator

add(identifier, entity) ==
  /\ Len(minted) < MaxSymbols
  /\ LET reg == addTo([entityMap |-> entityMap, entitySymbols |-> entitySymbols,
                       minted |-> minted], identifier, entity)
     IN  /\ entityMap' = reg.entityMap
         /\ entitySymbols' = reg.entitySymbols
         /\ minted' = reg.minted
  /\ call' = [op |-> "add", identifier |-> identifier, entity |-> entity]
  /\ ret' = "this"

\* remove that forgets entitySymbols.delete(identifier)
removeKeepsIdentifier(identifier) ==
  LET symbol == MapGet(entitySymbols, identifier)
  IN  /\ IF MapHas(entitySymbols, identifier)
         THEN /\ entityMap' = MapDelete(entityMap, symbol)
              /\ entitySymbols' = entitySymbols
              /\ ret' = "true"
         ELSE /\ UNCHANGED <<entityMap, entitySymbols>>
              /\ ret' = "false"
      /\ call' = [op |-> "remove", identifier |-> identifier, entity |-> Undefined]
      /\ UNCHANGED minted

\* remove without the if (symbol) test
removeUnguarded(identifier) ==
  LET symbol == MapGet(entitySymbols, identifier)
  IN  /\ entityMap' = MapDelete(entityMap, symbol)
      /\ entitySymbols' = MapDelete(entitySymbols, identifier)
      /\ ret' = "true"
      /\ call' = [op |-> "remove", identifier |-> identifier, entity |-> Undefined]
      /\ UNCHANGED minted

\* remove that deletes the oldest entry of each table instead of the named one
removeOldest(identifier) ==
  LET symbol == MapGet(entitySymbols, identifier)
  IN  /\ IF MapHas(entitySymbols, identifier)
         THEN /\ entityMap' = MapDelete(entityMap, entitySymbols[1].value)
              /\ entitySymbols' = Tail(entitySymbols)
              /\ ret' = "true"
         ELSE /\ UNCHANGED <<entityMap, entitySymbols>>
              /\ ret' = "false"
      /\ call' = [op |-> "remove", identifier |-> identifier, entity |-> Undefined]
      /\ UNCHANGED minted

remove(identifier) ==
  LET symbol == MapGet(entitySymbols, identifier)
  IN  /\ IF MapHas(entitySymbols, identifier)
         THEN /\ entityMap' = MapDelete(entityMap, symbol)
              /\ entitySymbols' = MapDelete(entitySymbols, identifier)
              /\ ret' = "true"
         ELSE /\ UNCHANGED <<entityMap, entitySymbols>>
              /\ ret' = "false"
      /\ call' = [op |-> "remove", identifier |-> identifier, entity |-> Undefined]
      /\ UNCHANGED minted

\* clear that forgets entitySymbols.clear()
clearEntityMapOnly ==
  /\ entityMap' = MapClear(entityMap)
  /\ entitySymbols' = entitySymbols
  /\ call' = [op |-> "clear", identifier |-> NoArg, entity |-> Undefined]
  /\ ret' = "void"
  /\ UNCHANGED minted

\* clear that forgets entityMap.clear()
clearEntitySymbolsOnly ==
  /\ entityMap' = entityMap
  /\ entitySymbols' = MapClear(entitySymbols)
  /\ call' = [op |-> "clear", identifier |-> NoArg, entity |-> Undefined]
  /\ ret' = "void"
  /\ UNCHANGED minted

clear ==
  /\ entityMap' = MapClear(entityMap)
  /\ entitySymbols' = MapClear(entitySymbols)
  /\ call' = [op |-> "clear", identifier |-> NoArg, entity |-> Undefined]
  /\ ret' = "void"
  /\ UNCHANGED minted

Next ==
  \/ \E identifier \in Identifiers, entity \in Entities :
       add(identifier, entity) /\ UNCHANGED <<snapshot, iterator>>
  \/ \E identifier \in Identifiers :
       remove(identifier) /\ UNCHANGED <<snapshot, iterator>>
  \/ clear /\ UNCHANGED <<snapshot, iterator>>

Spec == Init /\ [][Next]_vars

----------------------------------------------------------------------------
(* getAllEntities() and what its caller does with the object it returns.   *)

\* getAllEntities(), the caller keeps the returned object
getAllEntitiesCall ==
  /\ snapshot' = [returned |-> TRUE, object |-> getAllEntities]
  /\ call' = [op |-> "getAllEntities", identifier |-> NoArg, entity |-> Undefined]
  /\ ret' = "object"
  /\ UNCHANGED <<entityMap, entitySymbols, minted, iterator>>

\* what the caller writes into the returned object: an entity the registry never held
CallerEntities == {30}

\* the caller's entities[key] = entity on the returned object
snapshotAssign(key, entity) ==
  /\ snapshot.returned
  /\ snapshot' = [snapshot EXCEPT !.object =
                    [k \in DOMAIN snapshot.object \cup {key} |->
                       IF k = key THEN entity ELSE snapshot.object[k]]]
  /\ call' = [op |-> "entities[key] = entity", identifier |-> key, entity |-> entity]
  /\ ret' = "void"
  /\ UNCHANGED <<entityMap, entitySymbols, minted, iterator>>

\* the caller's delete entities[key] on the returned object
snapshotDelete(key) ==
  /\ snapshot.returned
  /\ key \in DOMAIN snapshot.object
  /\ snapshot' = [snapshot EXCEPT !.object =
                    [k \in DOMAIN snapshot.object \ {key} |-> snapshot.object[k]]]
  /\ call' = [op |-> "delete entities[key]", identifier |-> key, entity |-> Undefined]
  /\ ret' = "void"
  /\ UNCHANGED <<entityMap, entitySymbols, minted, iterator>>

NextSnapshot ==
  \/ \E identifier \in Identifiers, entity \in Entities :
       /\ Len(minted) < MaxSnapshotSymbols
       /\ add(identifier, entity)
       /\ UNCHANGED <<snapshot, iterator>>
  \/ \E identifier \in Identifiers :
       remove(identifier) /\ UNCHANGED <<snapshot, iterator>>
  \/ clear /\ UNCHANGED <<snapshot, iterator>>
  \/ getAllEntitiesCall
  \/ \E key \in Identifiers, entity \in CallerEntities : snapshotAssign(key, entity)
  \/ \E key \in Identifiers : snapshotDelete(key)

SpecSnapshot == Init /\ [][NextSnapshot]_vars

----------------------------------------------------------------------------
(* The object [Symbol.iterator]() returns.  It holds two Map iterators     *)
(* made when it is obtained.  A Map iterator is live: it stands after the  *)
(* pos entries it has passed, an entry deleted behind it moves it back by  *)
(* one, and once it has found no further entry it stays done.              *)

\* next() of a Map's values() iterator in state st
MapIteratorStep(m, st) ==
  IF st.done \/ st.pos >= Len(m)
  THEN [done |-> TRUE, value |-> Undefined, state |-> [pos |-> st.pos, done |-> TRUE]]
  ELSE [done |-> FALSE, value |-> m[st.pos + 1].value,
        state |-> [pos |-> st.pos + 1, done |-> FALSE]]

\* the iterator state st of Map m after m.delete(k), k a key of m
MapIteratorAfterDelete(m, k, st) ==
  LET i == CHOOSE j \in 1..Len(m) : m[j].key = k
  IN  IF i <= st.pos THEN [st EXCEPT !.pos = @ - 1] ELSE st

\* the iterator state st of a Map after its clear()
MapIteratorAfterClear(st) == [st EXCEPT !.pos = 0]

\* [Symbol.iterator](): entitySymbols.values() and entityMap.values(), both at the start
symbolIterator ==
  /\ iterator' = [obtained |-> TRUE,
                  symbols  |-> [pos |-> 0, done |-> FALSE],
                  entities |-> [pos |-> 0, done |-> FALSE],
                  result   |-> [done |-> FALSE, value |-> << >>]]
  /\ call' = [op |-> "Symbol.iterator", identifier |-> NoArg, entity |-> Undefined]
  /\ ret' = "iterator"
  /\ UNCHANGED <<entityMap, entitySymbols, minted, snapshot>>

\* next() that makes its two Map iterators anew at each call
nextFromStart ==
  /\ iterator.obtained
  /\ LET symbol == MapIteratorStep(entitySymbols, [pos |-> 0, done |-> FALSE])
         entity == MapIteratorStep(entityMap, [pos |-> 0, done |-> FALSE])
     IN  iterator' = [iterator EXCEPT
                        !.result = [done  |-> symbol.done \/ entity.done,
                                    value |-> <<entity.value, symbol.value, symbol.value>>]]
  /\ call' = [op |-> "next", identifier |-> NoArg, entity |-> Undefined]
  /\ ret' = "result"
  /\ UNCHANGED <<entityMap, entitySymbols, minted, snapshot>>

\* next() of the obtained object: both Map iterators advance, done if either is;
\* the fourth field of value is entityMap itself and is not copied into result
next ==
  /\ iterator.obtained
  /\ LET symbol == MapIteratorStep(entitySymbols, iterator.symbols)
         entity == MapIteratorStep(entityMap, iterator.entities)
     IN  iterator' = [iterator EXCEPT
                        !.symbols  = symbol.state,
                        !.entities = entity.state,
                        !.result   = [done  |-> symbol.done \/ entity.done,
                                      value |-> <<entity.value, symbol.value, symbol.value>>]]
  /\ call' = [op |-> "next", identifier |-> NoArg, entity |-> Undefined]
  /\ ret' = "result"
  /\ UNCHANGED <<entityMap, entitySymbols, minted, snapshot>>

\* remove(identifier) while an iterator is held
removeUnderIterator(identifier) ==
  /\ remove(identifier)
  /\ iterator' =
       IF has(identifier)
       THEN [iterator EXCEPT
               !.symbols  = MapIteratorAfterDelete(entitySymbols, identifier, @),
               !.entities = MapIteratorAfterDelete(entityMap,
                                                   MapGet(entitySymbols, identifier), @)]
       ELSE iterator
  /\ UNCHANGED snapshot

\* clear() while an iterator is held
clearUnderIterator ==
  /\ clear
  /\ iterator' = [iterator EXCEPT !.symbols  = MapIteratorAfterClear(@),
                                  !.entities = MapIteratorAfterClear(@)]
  /\ UNCHANGED snapshot

NextIterator ==
  \/ \E identifier \in Identifiers, entity \in Entities :
       /\ Len(minted) < MaxIteratorSymbols
       /\ add(identifier, entity)
       /\ UNCHANGED <<snapshot, iterator>>
  \/ \E identifier \in Identifiers : removeUnderIterator(identifier)
  \/ clearUnderIterator
  \/ symbolIterator
  \/ next

SpecIterator == Init /\ [][NextIterator]_vars

----------------------------------------------------------------------------
(* Helpers of the properties. *)

Present == {identifier \in Identifiers : has(identifier)}

symbolOf(identifier) == MapGet(entitySymbols, identifier)

Range(s) == {s[i] : i \in 1..Len(s)}

identifierOf == [p \in Entities \X Identifiers |-> p[2]]

entityOf == [p \in Entities \X Identifiers |-> p[1]]

----------------------------------------------------------------------------
(* C1: after every public call the identifier table and the handle table   *)
(* have the same number of entries, so size equals the number of           *)
(* identifiers that are present.                                           *)
C1_EqualCardinality ==
  /\ MapSize(entitySymbols) = MapSize(entityMap)
  /\ size = Cardinality(Present)

(* C2: every handle that is a key of the handle table is the current       *)
(* handle of exactly one identifier; a handle replaced by a second add of  *)
(* its identifier is no longer a key of the handle table.                  *)
C2_NoOrphanedHandles ==
  \A i \in 1..Len(getAllSymbols) :
    Cardinality({identifier \in Present : symbolOf(identifier) = getAllSymbols[i]}) = 1

(* C3: at every valid index i the i-th identifier, the i-th handle and the *)
(* i-th result of map refer to one entry: the handle stored for            *)
(* getAllIdentifiers[i] is getAllSymbols[i], and the i-th value is the one  *)
(* stored under that handle.                                               *)
C3_OrderAgreement ==
  \A i \in 1..Len(getAllIdentifiers) :
    /\ i <= Len(getAllSymbols)
    /\ symbolOf(getAllIdentifiers[i]) = getAllSymbols[i]
    /\ map(identifierOf)[i] = getAllIdentifiers[i]
    /\ map(entityOf)[i] = MapGet(entityMap, getAllSymbols[i])

(* C4: get(id) is the entity of the most recent add(id, v) that no         *)
(* remove(id) or clear() followed, and undefined otherwise: each call      *)
(* sets get(id) to v when it is add(id, v), to undefined when it is        *)
(* remove(id) or clear(), and leaves it alone when it is anything else.    *)
C4_GetStep ==
  \A identifier \in Identifiers :
    get(identifier)' =
      IF call'.op = "add" /\ call'.identifier = identifier THEN call'.entity
      ELSE IF call'.op = "clear" \/ (call'.op = "remove" /\ call'.identifier = identifier)
           THEN Undefined
           ELSE get(identifier)

C4_GetReturnsMostRecentAdd == [][C4_GetStep]_vars

\* an identifier added twice with different entities: get answers the second
C4_Witness ==
  /\ call.op = "add"
  /\ get(call.identifier) = call.entity
  /\ \E i \in 1..Len(minted) :
       /\ minted[i].description = call.identifier
       /\ minted[i] # symbolOf(call.identifier)
       /\ MapHas(entityMap, minted[i])
       /\ MapGet(entityMap, minted[i]) # call.entity

(* C5: every add mints a handle different from every handle minted before *)
(* it, removed and cleared ones included; an identifier that is added      *)
(* again gets a handle different from the one it had.                      *)
C5_AddStep ==
  \A identifier \in Identifiers :
    (call'.op = "add" /\ call'.identifier = identifier) =>
      /\ symbolOf(identifier)' \notin Range(minted)
      /\ has(identifier) => symbolOf(identifier)' # symbolOf(identifier)

C5_MintedDistinct ==
  \A i, j \in 1..Len(minted) : i # j => minted[i] # minted[j]

C5_FreshHandles == [](C5_MintedDistinct) /\ [][C5_AddStep]_vars

\* the same identifier was given a handle, lost it by remove or clear, and got another
C5_Witness ==
  /\ call.op = "add"
  /\ \E i \in 1..Len(minted) :
       /\ minted[i].description = call.identifier
       /\ minted[i] # symbolOf(call.identifier)
       /\ ~MapHas(entityMap, minted[i])

(* C6: the handle of every (identifier, handle) entry of the identifier    *)
(* table is a key of the handle table.                                     *)
C6_HandlesResolve ==
  \A i \in 1..Len(entitySymbols) : MapHas(entityMap, entitySymbols[i].value)

C6_Witness ==
  /\ call.op = "remove"
  /\ ret = "true"
  /\ Len(entitySymbols) > 0
  /\ Len(entityMap) > Len(entitySymbols)

(* C7: remove(id) of a present identifier returns true and deletes its     *)
(* handle from both tables; right after it has(id) is false and get(id)    *)
(* is undefined.                                                           *)
C7_RemoveStep ==
  \A identifier \in Identifiers :
    (call'.op = "remove" /\ call'.identifier = identifier /\ has(identifier)) =>
      /\ ret' = "true"
      /\ ~MapHas(entityMap', symbolOf(identifier))
      /\ symbolOf(identifier) \notin Range(MapValues(entitySymbols'))
      /\ ~has(identifier)'
      /\ get(identifier)' = Undefined

C7_RemovePresent == [][C7_RemoveStep]_vars

C7_Witness ==
  /\ call.op = "remove"
  /\ ret = "true"
  /\ ~has(call.identifier)
  /\ get(call.identifier) = Undefined

(* C8: remove(id) of an absent identifier returns false and leaves both    *)
(* tables, hence size, as they were; get(id) of an absent identifier is    *)
(* undefined.                                                              *)
C8_RemoveAbsentStep ==
  \A identifier \in Identifiers :
    (call'.op = "remove" /\ call'.identifier = identifier /\ ~has(identifier)) =>
      /\ ret' = "false"
      /\ UNCHANGED <<entityMap, entitySymbols>>
      /\ size' = size

C8_GetAbsent ==
  \A identifier \in Identifiers : ~has(identifier) => get(identifier) = Undefined

C8_UnknownIdentifier == [](C8_GetAbsent) /\ [][C8_RemoveAbsentStep]_vars

\* a remove that returned false on a registry that holds something
C8_Witness ==
  /\ call.op = "remove"
  /\ ret = "false"
  /\ size > 0
  /\ get(call.identifier) = Undefined

(* C9: remove(id) leaves every other identifier j as it was: its handle,   *)
(* the entity stored under that handle, has(j) and get(j).                 *)
C9_RemoveFrameStep ==
  \A identifier \in Identifiers : \A j \in Identifiers \ {identifier} :
    (call'.op = "remove" /\ call'.identifier = identifier) =>
      /\ has(j)' = has(j)
      /\ get(j)' = get(j)
      /\ has(j) => /\ has(j)'
                   /\ symbolOf(j)' = symbolOf(j)
                   /\ MapHas(entityMap', symbolOf(j))
                   /\ MapGet(entityMap', symbolOf(j)) = MapGet(entityMap, symbolOf(j))

C9_RemoveFrame == [][C9_RemoveFrameStep]_vars

\* a successful remove with another identifier still present
C9_Witness ==
  /\ call.op = "remove"
  /\ ret = "true"
  /\ \E j \in Identifiers \ {call.identifier} : has(j) /\ get(j) # Undefined

(* C10: a default iteration during which the registry is not changed       *)
(* produces as many items as size was when it began.                       *)
C10_IterationLengthIsSize == Len(iterate) = size

----------------------------------------------------------------------------
(* Callbacks used by the properties of the combinators.  A comparison with *)
(* undefined is false in JavaScript.                                       *)

greaterThan(t) == [p \in Entities \X Identifiers |-> p[1] # Undefined /\ p[1] > t]

identifierIs(k) == [p \in Entities \X Identifiers |-> p[2] = k]

Predicates ==
  {greaterThan(t) : t \in {0, 15, 20}} \cup {identifierIs(k) : k \in Identifiers}
    \cup {[p \in Entities \X Identifiers |-> TRUE]}

double == [p \in Entities \X Identifiers |-> p[1] * 2]

\* (accumulator, entity) => accumulator * 100 + entity: the result spells the order
shiftIn == [p \in Int \X Entities \X Identifiers |-> p[1] * 100 + p[2]]

\* the i-th entry of the handle table, as the pair a callback is handed
handleEntry(i) == <<entityMap[i].value, entityMap[i].key.description>>

RECURSIVE foldHandles(_, _, _)
foldHandles(callback, i, accumulator) ==
  IF i > Len(entityMap) THEN accumulator
  ELSE foldHandles(callback, i + 1,
                   callback[<<accumulator, entityMap[i].value, entityMap[i].key.description>>])

RECURSIVE selectHandles(_, _)
selectHandles(callback, i) ==
  IF i > Len(entityMap) THEN << >>
  ELSE (IF callback[handleEntry(i)] THEN <<entityMap[i].value>> ELSE << >>)
         \o selectHandles(callback, i + 1)

----------------------------------------------------------------------------
(* C11: after a clear() both tables are empty, isEmpty is true, size is 0  *)
(* and has(id) is false for every identifier; clear() on an empty registry *)
(* changes nothing.                                                        *)
C11_AfterClear ==
  call.op = "clear" =>
    /\ entityMap = << >>
    /\ entitySymbols = << >>
    /\ isEmpty
    /\ size = 0
    /\ \A identifier \in Identifiers : ~has(identifier)

C11_ClearEmptyStep ==
  (call'.op = "clear" /\ entityMap = << >> /\ entitySymbols = << >>) =>
    UNCHANGED <<entityMap, entitySymbols, minted>>

C11_Clear == [](C11_AfterClear) /\ [][C11_ClearEmptyStep]_vars

\* a clear() of a registry that had been given entries
C11_Witness ==
  /\ call.op = "clear"
  /\ isEmpty
  /\ Len(minted) >= 2

C13_HandleTableOrder ==
  /\ map(double) = [i \in 1..Len(getAllSymbols) |-> double[handleEntry(i)]]
  /\ map(entityOf) = MapValues(entityMap)
  /\ \A callback \in Predicates : filter(callback) = selectHandles(callback, 1)
  /\ reduce(shiftIn, 0) = foldHandles(shiftIn, 1, 0)

(* C15: every item of the default iteration is consistent: its two handle  *)
(* fields are equal, its value is the one the handle table stores under    *)
(* that handle, and the i-th item's handle is the handle of                *)
(* getAllIdentifiers[i].                                                   *)
C15_ItemsConsistent ==
  \A i \in 1..Len(iterate) :
    /\ iterate[i][2] = iterate[i][3]
    /\ MapHas(entityMap, iterate[i][2])
    /\ iterate[i][1] = MapGet(entityMap, iterate[i][2])
    /\ iterate[i][2] = symbolOf(getAllIdentifiers[i])

(* C16: getAllIdentifiers lists every present identifier once, in the      *)
(* order of the add that introduced it since it was last absent: add of a  *)
(* present identifier leaves the list as it is, add of an absent one       *)
(* appends it, remove(id) deletes id and keeps the order of the others,    *)
(* clear empties it.                                                       *)
C16_without(list, identifier) == SelectSeq(list, LAMBDA k : k # identifier)

C16_OrderStep ==
  \A identifier \in Identifiers \cup {NoArg} :
    call'.identifier = identifier =>
      getAllIdentifiers' =
        IF call'.op = "add"
        THEN (IF has(identifier) THEN getAllIdentifiers
              ELSE Append(getAllIdentifiers, identifier))
        ELSE IF call'.op = "remove" THEN C16_without(getAllIdentifiers, identifier)
        ELSE IF call'.op = "clear" THEN << >>
        ELSE getAllIdentifiers

C16_EachOnce ==
  /\ \A i, j \in 1..Len(getAllIdentifiers) :
       i # j => getAllIdentifiers[i] # getAllIdentifiers[j]
  /\ Range(getAllIdentifiers) = Present

C16_IdentifierOrder == [](C16_EachOnce) /\ [][C16_OrderStep]_vars

\* a was introduced before b, was removed and added again: it is listed after b
C16_Witness ==
  /\ call.op = "add"
  /\ call.identifier = "a"
  /\ getAllIdentifiers = <<"b", "a">>
  /\ Len(minted) >= 3
  /\ minted[1].description = "a"
  /\ minted[2].description = "b"

(* C18: isEmpty is true exactly when no identifier is present, that is     *)
(* when has(id) is false for every identifier and getAllIdentifiers is     *)
(* empty.                                                                  *)
C18_IsEmptyIffNoIdentifier ==
  /\ isEmpty <=> (\A identifier \in Identifiers : ~has(identifier))
  /\ isEmpty <=> (getAllIdentifiers = << >>)

(* C19: has(id) and get(id) agree: get(id) is a stored entity only if      *)
(* has(id), and if has(id) then get(id) is the entity the handle table     *)
(* stores under id's handle, so it is undefined only when that stored      *)
(* entity is itself undefined.                                             *)
C19_HasGetAgree ==
  \A identifier \in Identifiers :
    /\ get(identifier) # Undefined => has(identifier)
    /\ has(identifier) =>
         \E i \in 1..Len(entityMap) :
           /\ entityMap[i].key = symbolOf(identifier)
           /\ entityMap[i].value = get(identifier)
           /\ (entityMap[i].value # Undefined <=> get(identifier) # Undefined)

\* a present identifier whose entity is defined, behind a replaced handle that holds another
C19_Witness ==
  \E identifier \in Identifiers :
    /\ has(identifier)
    /\ get(identifier) # Undefined
    /\ Len(entityMap) > Len(entitySymbols)
    /\ entityMap[1].value # get(identifier)
    /\ \E other \in Identifiers : ~has(other) /\ get(other) = Undefined

(* C14: getAllEntities() returns a mapping that has exactly the present    *)
(* identifiers as keys, each with the entity get(id) returns; adding,      *)
(* changing or deleting keys of the returned mapping leaves both tables    *)
(* of the registry as they were.                                           *)
C14_SnapshotContent ==
  call.op = "getAllEntities" =>
    /\ DOMAIN snapshot.object = Present
    /\ \A identifier \in Present : snapshot.object[identifier] = get(identifier)

C14_SnapshotMutationStep ==
  call'.op \in {"entities[key] = entity", "delete entities[key]"} =>
    /\ UNCHANGED <<entityMap, entitySymbols>>
    /\ \A identifier \in Identifiers :
         /\ has(identifier)' = has(identifier)
         /\ get(identifier)' = get(identifier)

C17_NextStep ==
  call'.op = "next" =>
    /\ iterator.result.done => iterator'.result.done
    /\ ~iterator'.result.done =>
         /\ iterator'.symbols.pos = iterator.symbols.pos + 1
         /\ iterator'.entities.pos = iterator.entities.pos + 1
    /\ (iterator.symbols.pos >= Len(entitySymbols) \/ iterator.entities.pos >= Len(entityMap))
         => iterator'.result.done

C17_FreshStep ==
  (call.op = "Symbol.iterator" /\ call'.op = "next") =>
    /\ iterator'.result.done = iteratorNext(0).done
    /\ ~iterator'.result.done =>
         iterator'.result.value =
           <<entityMap[1].value, entitySymbols[1].value, entitySymbols[1].value>>

C17_WithinTables ==
  /\ iterator.symbols.pos <= Len(entitySymbols)
  /\ iterator.entities.pos <= Len(entityMap)

C17_OneShotIterator ==
  [](C17_WithinTables) /\ [][C17_NextStep /\ C17_FreshStep]_vars

\* next() on an exhausted iterator after an add gave the registry an entry it never passed
C17_Witness ==
  /\ call.op = "next"
  /\ iterator.result.done
  /\ iterator.symbols.done
  /\ iterator.symbols.pos < Len(entitySymbols)
  /\ iterator.entities.pos < Len(entityMap)

=============================================================================
